---- MODULE Spec2Model ----
(***************************************************************************)
(* Model of modules/output_handler.py: the branding fetcher                *)
(* (fetch_logo_and_site_name) and the PDF renderer (generate_pdf with      *)
(* _build_single_user_section, add_greeting_and_password and               *)
(* add_app_store_buttons).                                                 *)
(*                                                                         *)
(* Python str values that the code inspects character by character (host   *)
(* strings, URLs, link texts, display names, usernames, passwords) are     *)
(* sequences of one-character strings; a multi-character element stands    *)
(* for a literal of the source that the code never looks into.  File paths *)
(* are TLA+ strings.  A dict is a function whose DOMAIN is its key set.    *)
(* The story is the list of flowables handed to doc.build.  The font       *)
(* registration and the page background of generate_pdf put nothing in the *)
(* story and are left out, as is generate_qr_code.                         *)
(***************************************************************************)
EXTENDS Integers, Sequences, FiniteSets, TLC

VARIABLES
    pc,            \* "idle", "fetched" (fetch_logo_and_site_name returned) or "generated" (generate_pdf ended)
    config_ncUrl,  \* the host string passed to the call
    net,           \* what the network, the parser and the disk do during the fetch
    requested,     \* the URLs handed to requests.get, in order
    disk,          \* files written to tmp_dir by the fetch: a set of <<path, content>>
    fetched,       \* the triple returned by fetch_logo_and_site_name
    args,          \* the arguments of the generate_pdf call
    story,         \* the story list when generate_pdf ended
    raised,        \* the exception that left the call, "none" when it returned
    pdf_written    \* whether doc.build wrote the output file

vars == <<pc, config_ncUrl, net, requested, disk, fetched, args, story, raised, pdf_written>>

-----------------------------------------------------------------------------
(* Bounds of the enumerated inputs *)

MaxHostLen == 2   \* characters of a host string after its prefix
MaxLinks == 2     \* links of the root page matching the footer selector
MaxUsers == 2     \* users of a multi-user document

-----------------------------------------------------------------------------
(* Python values and str methods *)

\* Python's None, as a value distinct from every path the model enumerates
None == "<None>"

SeqsUpTo(S, n) == UNION {[1..k -> S] : k \in 0..n}

\* str.startswith
startswith(s, p) == Len(s) >= Len(p) /\ SubSeq(s, 1, Len(p)) = p

\* str.rstrip(chars) for a one-character chars
RECURSIVE rstrip(_, _)
rstrip(s, c) ==
    IF s # <<>> /\ s[Len(s)] = c THEN rstrip(SubSeq(s, 1, Len(s) - 1), c) ELSE s

Whitespace == {" "}

RECURSIVE lstrip_ws(_)
lstrip_ws(s) == IF s # <<>> /\ Head(s) \in Whitespace THEN lstrip_ws(Tail(s)) ELSE s

RECURSIVE rstrip_ws(_)
rstrip_ws(s) ==
    IF s # <<>> /\ s[Len(s)] \in Whitespace
    THEN rstrip_ws(SubSeq(s, 1, Len(s) - 1)) ELSE s

\* str.strip()
strip(s) == rstrip_ws(lstrip_ws(s))

\* os.path.join of a directory and a file name
path_join(dir, name) == dir \o "/" \o name

-----------------------------------------------------------------------------
(* fetch_logo_and_site_name *)

HttpPrefix == <<"h", "t", "t", "p">>
HttpScheme == <<"h", "t", "t", "p", ":", "/", "/">>
HttpsScheme == <<"h", "t", "t", "p", "s", ":", "/", "/">>

\* url: the host string with "https://" in front unless it starts with "http"
normalize_url(host) ==
    IF ~startswith(host, HttpPrefix) THEN HttpsScheme \o host ELSE host

LogoSuffix == "apps/theming/image/logoheader"
BgSuffix == "apps/theming/image/background"

\* logo_url / bg_url
theming_url(url, suffix) == rstrip(url, "/") \o <<"/">> \o <<suffix>>

\* what follows the scheme of a url, up to the first "/"
RECURSIVE UpToSlash(_)
UpToSlash(s) ==
    IF s = <<>> \/ Head(s) = "/" THEN <<>> ELSE <<Head(s)>> \o UpToSlash(Tail(s))

UrlHost(url) ==
    IF startswith(url, HttpsScheme) THEN UpToSlash(SubSeq(url, Len(HttpsScheme) + 1, Len(url)))
    ELSE IF startswith(url, HttpScheme) THEN UpToSlash(SubSeq(url, Len(HttpScheme) + 1, Len(url)))
    ELSE <<>>

\* requests.get raises MissingSchema / InvalidSchema / InvalidURL for a url
\* without an http(s) scheme or without a host, before anything is sent
requests_accepts(url) == UrlHost(url) # <<>>

\* soup.select_one: the first matching element, or None (here: <<>> of links)
select_one_last(links) == IF links = <<>> THEN <<>> ELSE <<links[Len(links)]>>

select_one(links) == IF links = <<>> THEN <<>> ELSE <<Head(links)>>

\* site_name
site_name_of(links, host) ==
    IF select_one(links) # <<>> THEN strip(select_one(links)[1]) ELSE host

except_return_url(host, url) == <<None, None, url>>

\* the except branch
except_return(host, url) == <<None, None, host>>

saved_path_bg_dropped(tmp_dir, name, url) ==
    IF url # <<>> /\ name # "site_bg.jpg" THEN path_join(tmp_dir, name) ELSE None

\* logo_path / bg_path: the path when the url is truthy, else None
saved_path(tmp_dir, name, url) ==
    IF url # <<>> THEN path_join(tmp_dir, name) ELSE None

\* Response.content of a theming GET
content_of(status) == IF status = 200 THEN "image-bytes" ELSE "error-page"

\* The steps of the try block at which an exception can be raised
FailPoints ==
    {"none", "root_get", "parse", "logo_get", "logo_open", "logo_write",
     "bg_get", "bg_open", "bg_write", "footer"}

\* The call: [ret, requested, disk].  n.fail names the step that raises (a
\* step the call does not reach raises nothing), n.links the texts of the
\* links matching "body > footer > p > a" in document order, n.logo_status
\* and n.bg_status the status codes of the two theming responses.
fetch_logo_and_site_name(host, tmp_dir, n) ==
    LET url == normalize_url(host)
        logo_url == theming_url(url, LogoSuffix)
        logo_path == saved_path(tmp_dir, "site_logo.jpg", logo_url)
        bg_url == theming_url(url, BgSuffix)
        bg_path == saved_path(tmp_dir, "site_bg.jpg", bg_url)
        exc == except_return(host, url)
        logo_file == {<<logo_path, content_of(n.logo_status)>>}
        logo_part == {<<logo_path, "">>}
        bg_file == {<<bg_path, content_of(n.bg_status)>>}
        bg_part == {<<bg_path, "">>}
    IN  IF ~requests_accepts(url) \/ n.fail = "root_get"
        THEN [ret |-> exc, requested |-> <<url>>, disk |-> {}]
        ELSE IF n.fail = "parse"
        THEN [ret |-> exc, requested |-> <<url>>, disk |-> {}]
        ELSE IF ~requests_accepts(logo_url) \/ n.fail = "logo_get"
        THEN [ret |-> exc, requested |-> <<url, logo_url>>, disk |-> {}]
        ELSE IF n.fail = "logo_open"
        THEN [ret |-> exc, requested |-> <<url, logo_url>>, disk |-> {}]
        ELSE IF n.fail = "logo_write"
        THEN [ret |-> exc, requested |-> <<url, logo_url>>, disk |-> logo_part]
        ELSE IF ~requests_accepts(bg_url) \/ n.fail = "bg_get"
        THEN [ret |-> exc, requested |-> <<url, logo_url, bg_url>>, disk |-> logo_file]
        ELSE IF n.fail = "bg_open"
        THEN [ret |-> exc, requested |-> <<url, logo_url, bg_url>>, disk |-> logo_file]
        ELSE IF n.fail = "bg_write"
        THEN [ret |-> exc, requested |-> <<url, logo_url, bg_url>>,
              disk |-> logo_file \cup bg_part]
        ELSE IF n.fail = "footer"
        THEN [ret |-> exc, requested |-> <<url, logo_url, bg_url>>,
              disk |-> logo_file \cup bg_file]
        ELSE [ret |-> <<logo_path, bg_path, site_name_of(n.links, host)>>,
              requested |-> <<url, logo_url, bg_url>>,
              disk |-> logo_file \cup bg_file]

-----------------------------------------------------------------------------
(* Inputs of the fetch *)

HostChars == {"a", "/"}
HostPrefixes == {<<>>, HttpScheme, HttpsScheme, HttpPrefix}
Hosts == {p \o b : p \in HostPrefixes, b \in SeqsUpTo(HostChars, MaxHostLen)}

LinkTexts == {<<" ">>, <<"n">>, <<" ", "n", " ">>}
StatusCodes == {200, 404}
Nets ==
    [fail : FailPoints, links : SeqsUpTo(LinkTexts, MaxLinks),
     logo_status : StatusCodes, bg_status : StatusCodes]
NoNet == [fail |-> "none", links |-> <<>>, logo_status |-> 200, bg_status |-> 200]

TmpDir == "tmp"

-----------------------------------------------------------------------------
(* reportlab flowables *)

Image(filename, width, height) ==
    [kind |-> "Image", filename |-> filename, width |-> width, height |-> height]
Spacer(width, height) == [kind |-> "Spacer", width |-> width, height |-> height]
Paragraph(text, style) == [kind |-> "Paragraph", text |-> text, style |-> style]
Table(data, colWidths, style) ==
    [kind |-> "Table", data |-> data, colWidths |-> colWidths, style |-> style]
PageBreak == [kind |-> "PageBreak"]
ClickableImage(image_path, url, width, height) ==
    [kind |-> "ClickableImage", image_path |-> image_path, url |-> url,
     width |-> width, height |-> height]

\* the module-level default logo
nclogo == "assets/Nextcloud_Logo.jpg"
im == Image(nclogo, 150, 106)

\* the TableStyle commands of uname_table and pwd_table
BoxStyle ==
    <<"BACKGROUND", "BOX", "ALIGN", "VALIGN", "FONTSIZE", "FONTNAME",
      "TOPPADDING", "BOTTOMPADDING">>

FontOpen == "<font size=14>"
FontClose == "</font>"

-----------------------------------------------------------------------------
(* dicts and the translation table *)

EmptyDict == [k \in {} |-> None]

\* dict.get(key, default)
dict_get(d, key, default) == IF key \in DOMAIN d THEN d[key] ELSE default

\* the hardcoded fallback text of each translation key
Fallback ==
    [output_handler_greeting |-> "Missing translation string for: output_handler_greeting",
     output_handler_account_created |-> "Missing translation string for: output_handler_account_created",
     output_handler_login_instructions |-> "Missing translation string for: output_handler_login_instructions",
     output_handler_nc_url |-> "Missing translation string for: output_handler_nc_url",
     output_handler_username |-> "Username",
     output_handler_password |-> "Password",
     output_handler_qr_code_alternative |-> "Missing translation string for: output_handler_qr_code_alternative",
     output_handler_download_app |-> "Download the Nextcloud Talk app (hardcoded text)"]

lang_get(lang, key) == dict_get(lang, key, Fallback[key])

\* a str value of a dict, or None
PyStr(s) == [isNone |-> FALSE, s |-> s]
PyNone == [isNone |-> TRUE, s |-> <<>>]

-----------------------------------------------------------------------------
(* add_greeting_and_password *)

\* The builders thread [story, raised]: once raised is not "none" the
\* exception is propagating and nothing more is appended.
Ok(s) == [story |-> s, raised |-> "none"]
Raise(s, e) == [story |-> s, raised |-> e]

displayname_unstripped(user_data) ==
    LET d == dict_get(user_data, "displayname", PyStr(<<>>)).s
    IN  IF d # <<>> THEN d ELSE user_data["username"]

\* user_data.get("displayname", "").strip() or user_data["username"]
displayname_of(user_data) ==
    LET d == strip(dict_get(user_data, "displayname", PyStr(<<>>)).s)
    IN  IF d # <<>> THEN d ELSE user_data["username"]

\* whether that expression raises, and what
displayname_raises(user_data) ==
    IF dict_get(user_data, "displayname", PyStr(<<>>)).isNone THEN "AttributeError"
    ELSE IF strip(dict_get(user_data, "displayname", PyStr(<<>>)).s) = <<>>
            /\ "username" \notin DOMAIN user_data THEN "KeyError"
    ELSE "none"

uname_table_stripped(user_data) ==
    Table(<<<<strip(user_data["username"])>>>>, <<250>>, BoxStyle)

uname_table(user_data) == Table(<<<<user_data["username"]>>>>, <<250>>, BoxStyle)

pwd_table(user_data) == Table(<<<<user_data["password"]>>>>, <<250>>, BoxStyle)

add_greeting_and_password(st, user_data, lang, site_name, ncUrl) ==
    IF displayname_raises(user_data) # "none"
    THEN Raise(st, displayname_raises(user_data))
    ELSE
    LET s1 == st \o
            <<Paragraph(<<FontOpen, lang_get(lang, "output_handler_greeting"), " ">>
                            \o displayname_of(user_data) \o <<",", FontClose>>, "Justify"),
              Spacer(1, 12),
              Paragraph(<<FontOpen, lang_get(lang, "output_handler_account_created"), " ">>
                            \o site_name \o <<FontClose>>, "Justify"),
              Spacer(1, 12),
              Paragraph(<<FontOpen, lang_get(lang, "output_handler_login_instructions"),
                          FontClose>>, "Normal"),
              Spacer(1, 24),
              Paragraph(<<FontOpen, lang_get(lang, "output_handler_nc_url"), ":", " ">>
                            \o ncUrl \o <<FontClose>>, "Normal"),
              Spacer(1, 24)>>
    IN  IF "username" \notin DOMAIN user_data THEN Raise(s1, "KeyError")
        ELSE
        LET s2 == s1 \o
                <<Paragraph(<<FontOpen, lang_get(lang, "output_handler_username"), ":",
                              FontClose>>, "Normal"),
                  Spacer(1, 10),
                  uname_table(user_data),
                  Spacer(1, 20)>>
        IN  IF "password" \notin DOMAIN user_data THEN Raise(s2, "KeyError")
            ELSE Ok(s2 \o
                    <<Paragraph(<<FontOpen, lang_get(lang, "output_handler_password"), ":",
                                  FontClose>>, "Normal"),
                      Spacer(1, 10),
                      pwd_table(user_data),
                      Spacer(1, 20)>>)

-----------------------------------------------------------------------------
(* add_app_store_buttons *)

google_play_img == "modules/../assets/google_play.jpg"
app_store_img == "modules/../assets/app_store.jpg"
GooglePlayUrl == "https://play.google.com/store/apps/details?id=com.nextcloud.talk2"
AppStoreUrl == "https://itunes.apple.com/us/app/nextcloud-talk/id1296825574"

\* files is the set of paths for which os.path.exists is true
add_app_store_buttons(st, lang, files) ==
    LET s1 == st \o
            <<Paragraph(<<FontOpen, lang_get(lang, "output_handler_download_app"),
                          FontClose>>, "Normal"),
              Spacer(1, 14)>>
        btn_row ==
            (IF google_play_img \in files
             THEN <<ClickableImage(google_play_img, GooglePlayUrl, 140, 45)>> ELSE <<>>)
            \o
            (IF app_store_img \in files
             THEN <<ClickableImage(app_store_img, AppStoreUrl, 140, 45)>> ELSE <<>>)
    IN  IF Len(btn_row) > 0
        THEN s1 \o <<Table(<<btn_row>>, [i \in 1..Len(btn_row) |-> 140 + 10], <<>>),
                     Spacer(1, 24)>>
        ELSE s1

-----------------------------------------------------------------------------
(* _build_single_user_section *)

\* qr_code_path and os.path.exists(qr_code_path)
qr_shown(qr_code_path, files) == qr_code_path # None /\ qr_code_path \in files

qr_part(qr_code_path, lang, files) ==
    IF qr_shown(qr_code_path, files)
    THEN <<Paragraph(<<FontOpen, lang_get(lang, "output_handler_qr_code_alternative"),
                       FontClose>>, "Normal"),
           Spacer(1, 24),
           Image(qr_code_path, 150, 150)>>
    ELSE <<>>

build_section_qr_first(st, user_data, qr_code_path, ncUrl, lang, im_site, site_name, files) ==
    LET r == add_greeting_and_password(
                 st \o <<im_site, Spacer(1, 8)>> \o qr_part(qr_code_path, lang, files),
                 user_data, lang, site_name, ncUrl)
    IN  IF r.raised # "none" THEN r
        ELSE Ok(add_app_store_buttons(r.story \o <<Spacer(1, 24)>>, lang, files))

build_single_user_section(st, user_data, qr_code_path, ncUrl, lang, im_site, site_name, files) ==
    LET r == add_greeting_and_password(st \o <<im_site, Spacer(1, 8)>>,
                                       user_data, lang, site_name, ncUrl)
    IN  IF r.raised # "none" THEN r
        ELSE Ok(add_app_store_buttons(
                    r.story \o qr_part(qr_code_path, lang, files) \o <<Spacer(1, 24)>>,
                    lang, files))

-----------------------------------------------------------------------------
(* generate_pdf *)

im_site_unchecked(logo_path, files) ==
    IF logo_path # None THEN Image(logo_path, 150, 150) ELSE im

\* im_site: the site logo when logo_path is given and exists, else the default logo
im_site_of(logo_path, files) ==
    IF logo_path # None /\ logo_path \in files THEN Image(logo_path, 150, 150) ELSE im

multi_user_step_no_break(r, user, a) ==
    build_single_user_section(r.story, user, dict_get(user, "qr_code_path", None),
                              a.config_ncUrl, a.lang, im_site_of(a.logo_path, a.files),
                              a.site_name, a.files)

\* one iteration of the loop over user_data["users"]
multi_user_step(r, user, a) ==
    LET b == build_single_user_section(
                 r.story, user, dict_get(user, "qr_code_path", None), a.config_ncUrl,
                 a.lang, im_site_of(a.logo_path, a.files), a.site_name, a.files)
    IN  IF b.raised # "none" THEN b ELSE Ok(Append(b.story, PageBreak))

RECURSIVE multi_user_loop(_, _, _)
multi_user_loop(r, users, a) ==
    IF users = <<>> \/ r.raised # "none" THEN r
    ELSE multi_user_loop(multi_user_step(r, Head(users), a), Tail(users), a)

build_story(a) ==
    IF a.multi_user
    THEN multi_user_loop(Ok(<<>>), a.user_data["users"], a)
    ELSE build_single_user_section(<<>>, a.user_data, a.qr_code_path, a.config_ncUrl,
                                   a.lang, im_site_of(a.logo_path, a.files),
                                   a.site_name, a.files)

doc_build_swallowing(r, build_ok) ==
    [story |-> r.story,
     raised |-> IF build_ok THEN "none" ELSE "BuildError",
     pdf |-> build_ok]

\* doc.build(story, ...): reached only when building the story raised nothing;
\* build_ok says whether the document build itself succeeds
doc_build(r, build_ok) ==
    [story |-> r.story,
     raised |-> IF r.raised # "none" THEN r.raised
                ELSE IF build_ok THEN "none" ELSE "BuildError",
     pdf |-> r.raised = "none" /\ build_ok]

generate_pdf(a) == doc_build(build_story(a), a.build_ok)

-----------------------------------------------------------------------------
(* Inputs of generate_pdf *)

Usernames == {<<"u">>, <<" ", "v">>}
Passwords == {<<"p", " ">>}
DisplayNames ==
    {PyNone} \cup
    {PyStr(s) : s \in {<<>>, <<" ">>, <<"d">>, <<" ", "d", " ">>, <<"d", " ", "e">>}}

UsernameParts == {EmptyDict} \cup {"username" :> u : u \in Usernames}
PasswordParts == {EmptyDict} \cup {"password" :> p : p \in Passwords}
DisplayParts == {EmptyDict} \cup {"displayname" :> d : d \in DisplayNames}

SingleUsers == {u @@ p @@ d : u \in UsernameParts, p \in PasswordParts, d \in DisplayParts}

QrOk == "tmp/qr_alice.jpg"
QrGone == "tmp/qr_gone.jpg"
LogoOk == "tmp/site_logo.jpg"
LogoGone == "tmp/no_logo.jpg"

QrPaths == {None, QrOk, QrGone}
LogoPaths == {None, LogoOk, LogoGone}

ListUsers ==
    {("username" :> <<"u">>) @@ ("password" :> <<"p", " ">>) @@ ("qr_code_path" :> QrOk),
     ("username" :> <<" ", "v">>) @@ ("password" :> <<"p", " ">>),
     ("username" :> <<"w">>) @@ ("password" :> <<"q">>) @@ ("qr_code_path" :> QrGone)
         @@ ("displayname" :> PyStr(<<" ", "d", " ">>)),
     ("password" :> <<"p", " ">>) @@ ("qr_code_path" :> QrOk),
     ("username" :> <<"u">>) @@ ("displayname" :> PyStr(<<"d">>)),
     ("username" :> <<"u">>) @@ ("password" :> <<"p", " ">>) @@ ("displayname" :> PyNone)}

Keys == DOMAIN Fallback
FullLang == [k \in Keys |-> "tr:" \o k]
Langs == {EmptyDict, FullLang}

SiteNames == {<<"C", "l", "o", "u", "d">>, <<"a", ".", "b">>}
PdfUrl == <<"a", ".", "b">>

FileSets == {{QrOk, LogoOk} \cup b : b \in SUBSET {google_play_img, app_store_img}}

Arg(user_data, qr, lang, multi, logo, site, files, ok) ==
    [user_data |-> user_data, qr_code_path |-> qr, config_ncUrl |-> PdfUrl, lang |-> lang,
     multi_user |-> multi, logo_path |-> logo, site_name |-> site, files |-> files,
     build_ok |-> ok]

SingleArgs ==
    {Arg(u, q, l, FALSE, g, s, f, ok) :
        u \in SingleUsers, q \in QrPaths, l \in Langs, g \in LogoPaths,
        s \in SiteNames, f \in FileSets, ok \in BOOLEAN}

MultiArgs ==
    {Arg("users" :> us, None, l, TRUE, g, s, f, ok) :
        us \in SeqsUpTo(ListUsers, MaxUsers), l \in Langs, g \in LogoPaths,
        s \in SiteNames, f \in FileSets, ok \in BOOLEAN}

NoArgs == Arg(EmptyDict, None, EmptyDict, FALSE, None, <<>>, {}, FALSE)

-----------------------------------------------------------------------------
(* The state machine: one call of either entry point *)

Init ==
    /\ pc = "idle"
    /\ config_ncUrl = <<>>
    /\ net = NoNet
    /\ requested = <<>>
    /\ disk = {}
    /\ fetched = <<None, None, <<>>>>
    /\ args = NoArgs
    /\ story = <<>>
    /\ raised = "none"
    /\ pdf_written = FALSE

Fetch ==
    /\ pc = "idle"
    /\ \E host \in Hosts, n \in Nets :
        LET r == fetch_logo_and_site_name(host, TmpDir, n)
        IN  /\ config_ncUrl' = host
            /\ net' = n
            /\ requested' = r.requested
            /\ disk' = r.disk
            /\ fetched' = r.ret
    /\ pc' = "fetched"
    /\ UNCHANGED <<args, story, raised, pdf_written>>

GeneratePdfSingle ==
    /\ pc = "idle"
    /\ \E a \in SingleArgs :
        LET r == generate_pdf(a)
        IN  /\ args' = a
            /\ story' = r.story
            /\ raised' = r.raised
            /\ pdf_written' = r.pdf
    /\ pc' = "generated"
    /\ UNCHANGED <<config_ncUrl, net, requested, disk, fetched>>

GeneratePdfMulti ==
    /\ pc = "idle"
    /\ \E a \in MultiArgs :
        LET r == generate_pdf(a)
        IN  /\ args' = a
            /\ story' = r.story
            /\ raised' = r.raised
            /\ pdf_written' = r.pdf
    /\ pc' = "generated"
    /\ UNCHANGED <<config_ncUrl, net, requested, disk, fetched>>

Next == Fetch \/ GeneratePdfSingle \/ GeneratePdfMulti

Spec == Init /\ [][Next]_vars

-----------------------------------------------------------------------------
(* Properties of fetch_logo_and_site_name *)

LogoFile == path_join(TmpDir, "site_logo.jpg")
BgFile == path_join(TmpDir, "site_bg.jpg")

\* the host string carries a scheme
HasScheme(host) == startswith(host, HttpScheme) \/ startswith(host, HttpsScheme)

\* all three GETs were answered and both files written
FetchSucceeded ==
    /\ pc = "fetched"
    /\ net.fail = "none"
    /\ Len(requested) = 3
    /\ {f[1] : f \in disk} = {LogoFile, BgFile}

\* t is s without its leading and trailing whitespace
IsTrimOf(t, s) ==
    /\ t # <<>> => Head(t) \notin Whitespace /\ t[Len(t)] \notin Whitespace
    /\ \E i \in 0..Len(s) :
          /\ i + Len(t) <= Len(s)
          /\ SubSeq(s, i + 1, i + Len(t)) = t
          /\ \A j \in (1..i) \cup ((i + Len(t) + 1)..Len(s)) : s[j] \in Whitespace

\* C1: whichever step of the sequence fails, the call returns
\* (None, None, config_ncUrl) with the host string exactly as passed in; a
\* host that requests cannot reach or refuses gives the same triple.
C1_FailureReturnsDefaults ==
    pc = "fetched" /\ (net.fail # "none" \/ Len(requested) < 3)
        => fetched = <<None, None, config_ncUrl>>

C1_Witness ==
    /\ pc = "fetched"
    /\ net.fail = "bg_write"
    /\ Len(requested) = 3
    /\ ~startswith(config_ncUrl, HttpPrefix)
    /\ fetched = <<None, None, config_ncUrl>>

\* the three URLs the claim C6 names for a host string
C6_Expected(host) ==
    LET base == IF HasScheme(host) THEN host ELSE HttpsScheme \o host
    IN  <<base,
          rstrip(base, "/") \o <<"/", LogoSuffix>>,
          rstrip(base, "/") \o <<"/", BgSuffix>>>>

\* C6: a host string without "http://" or "https://" in front is requested
\* as "https://<host>" and its two theming paths; a string with a scheme is
\* used unchanged as the root and, trailing slashes removed, as the base of
\* the theming paths.
C6_SchemePrefixedWhenAbsent ==
    pc = "fetched"
        => \A i \in 1..Len(requested) : requested[i] = C6_Expected(config_ncUrl)[i]

\* C9: when all three GETs and both writes succeed, the site name is the
\* trimmed text of the first matching footer link, or the raw host string
\* when no link matches, and both image paths are returned.
C9_SiteNameFromFirstFooterLink ==
    FetchSucceeded
        => /\ fetched[1] = LogoFile
           /\ fetched[2] = BgFile
           /\ IF net.links # <<>>
              THEN IsTrimOf(fetched[3], net.links[1])
              ELSE fetched[3] = config_ncUrl

C9_Witness ==
    /\ FetchSucceeded
    /\ Len(net.links) = 2
    /\ net.links[1] = <<" ", "n", " ">>
    /\ net.links[2] = <<" ">>
    /\ fetched[3] = <<"n">>

C9_WitnessNoLink ==
    /\ FetchSucceeded
    /\ net.links = <<>>
    /\ ~HasScheme(config_ncUrl)
    /\ fetched = <<LogoFile, BgFile, config_ncUrl>>

\* C10: the two image paths are both None or both set; a logo file written
\* before a later step fails stays on disk while the call reports no logo;
\* a call whose responses all arrive returns both paths whatever the status.
C10_PathsAllOrNothing ==
    pc = "fetched"
        => /\ \/ fetched[1] = None /\ fetched[2] = None
              \/ fetched[1] = LogoFile /\ fetched[2] = BgFile
           /\ net.fail \in {"bg_get", "bg_open", "bg_write", "footer"} /\ Len(requested) = 3
                 => fetched[1] = None /\ LogoFile \in {f[1] : f \in disk}
           /\ FetchSucceeded => fetched[1] # None /\ fetched[2] # None

C10_Witness ==
    /\ pc = "fetched"
    /\ net.fail = "footer"
    /\ net.logo_status = 404
    /\ fetched[1] = None
    /\ <<LogoFile, "error-page">> \in disk

-----------------------------------------------------------------------------
(* Reading the story *)

Generated == pc = "generated"

\* building the story ended without an exception (doc.build was reached)
StoryBuilt == Generated /\ raised \in {"none", "BuildError"}

\* the user records of the call, in order, and the QR path used for each
UsersOf(a) == IF a.multi_user THEN a.user_data["users"] ELSE <<a.user_data>>
QrPathOf(a, k) ==
    IF a.multi_user THEN dict_get(UsersOf(a)[k], "qr_code_path", None) ELSE a.qr_code_path

Range(f) == {f[i] : i \in DOMAIN f}

\* what an element of the story is: the translation key of a paragraph,
\* "logo" or "qr" for an image, "box" for a boxed table, "badges" for the
\* badge table, "break", "spacer"
Role(e) ==
    CASE e.kind = "Image" -> IF e.filename \in {QrOk, QrGone} THEN "qr" ELSE "logo"
      [] e.kind = "Paragraph" -> CHOOSE k \in Keys : lang_get(args.lang, k) = e.text[2]
      [] e.kind = "Table" -> IF "BOX" \in Range(e.style) THEN "box" ELSE "badges"
      [] e.kind = "PageBreak" -> "break"
      [] e.kind = "Spacer" -> "spacer"

Roles == [i \in 1..Len(story) |-> Role(story[i])]

IsLayout(r) == r \in {"spacer", "break"}
IsContent(r) == ~IsLayout(r)

\* the roles of the story without spacers and page breaks
Content == SelectSeq(Roles, IsContent)

IsKind(e, k) == e.kind = k
IsBox(e) == e.kind = "Table" /\ "BOX" \in Range(e.style)
IsGreeting(e) == e.kind = "Paragraph" /\ Role(e) = "output_handler_greeting"
IsPageBreak(e) == e.kind = "PageBreak"

Boxes == SelectSeq(story, IsBox)
Greetings == SelectSeq(story, IsGreeting)
PageBreaks == SelectSeq(story, IsPageBreak)

\* the positions of the logo images, which open the user blocks
LogoAt ==
    LET r == Roles
    IN  SelectSeq([i \in 1..Len(story) |-> i], LAMBDA i : r[i] = "logo")

\* the user blocks: the story cut at the logo images
Blocks ==
    LET at == LogoAt
    IN  [k \in 1..Len(at) |->
            SubSeq(story, at[k], IF k < Len(at) THEN at[k + 1] - 1 ELSE Len(story))]

RolesIn(block) == {Role(e) : e \in Range(block)}

\* a user record with username, password and a displayname that is a str
ValidUser(u) ==
    /\ "username" \in DOMAIN u
    /\ "password" \in DOMAIN u
    /\ ~dict_get(u, "displayname", PyStr(<<>>)).isNone

Defective(u) == "username" \notin DOMAIN u \/ "password" \notin DOMAIN u

-----------------------------------------------------------------------------
(* Properties of generate_pdf *)

\* C2: single-user mode puts one user block and no page break in the story;
\* multi-user mode with N users puts N blocks, one per user in list order,
\* with a page break between each pair of consecutive blocks.
C2_OneBlockPerUser ==
    StoryBuilt =>
        LET users == UsersOf(args)
            at == LogoAt
            blocks == Blocks
            boxes == Boxes
        IN  /\ Len(at) = Len(users)
            /\ Len(Greetings) = Len(users)
            /\ \A k \in 1..Len(users) :
                  /\ Len(boxes) >= 2 * k - 1
                  /\ boxes[2 * k - 1].data = <<<<users[k]["username"]>>>>
                  /\ boxes[2 * k - 1] \in Range(blocks[k])
            /\ ~args.multi_user => Len(users) = 1 /\ PageBreaks = <<>>
            /\ args.multi_user =>
                  \A k \in 2..Len(at) :
                      \E i \in (at[k - 1] + 1)..(at[k] - 1) : IsPageBreak(story[i])

C2_Witness ==
    /\ StoryBuilt
    /\ args.multi_user
    /\ Len(UsersOf(args)) = 2
    /\ Len(LogoAt) = 2
    /\ UsersOf(args)[1]["username"] # UsersOf(args)[2]["username"]
    /\ IsPageBreak(story[LogoAt[2] - 1])

C2_WitnessSingle ==
    /\ StoryBuilt
    /\ ~args.multi_user
    /\ Len(LogoAt) = 1
    /\ PageBreaks = <<>>

\* C3: every user block holds one boxed one-cell table with the username
\* unchanged and then one with the password unchanged, whatever the display
\* name, translation table, site name and QR path are.
C3_CredentialsVerbatim ==
    Generated =>
        LET users == UsersOf(args)
            blocks == Blocks
            boxes == Boxes
        IN  /\ \A i \in 1..Len(boxes) :
                  /\ (i + 1) \div 2 <= Len(users)
                  /\ boxes[i].data =
                        IF i % 2 = 1 THEN <<<<users[(i + 1) \div 2]["username"]>>>>
                        ELSE <<<<users[i \div 2]["password"]>>>>
            /\ StoryBuilt => Len(boxes) = 2 * Len(users)
            /\ \A k \in 1..Len(blocks) :
                  /\ Len(SelectSeq(blocks[k], IsBox)) <= 2
                  /\ StoryBuilt => Len(SelectSeq(blocks[k], IsBox)) = 2

C3_Witness ==
    /\ StoryBuilt
    /\ ~args.multi_user
    /\ ValidUser(args.user_data)
    /\ args.user_data["username"] = <<" ", "v">>
    /\ args.user_data["password"] = <<"p", " ">>
    /\ "displayname" \in DOMAIN args.user_data
    /\ args.lang = FullLang
    /\ args.qr_code_path = QrOk
    /\ Len(Boxes) = 2
    /\ Boxes[1].data = <<<<<<" ", "v">>>>>>
    /\ Boxes[2].data = <<<<<<"p", " ">>>>>>

\* the cases of C4 for the k-th user and for the call
QrMissing(k) == QrPathOf(args, k) = None \/ QrPathOf(args, k) \notin args.files
LogoMissing == args.logo_path = None \/ args.logo_path \notin args.files
AllValid == \A k \in 1..Len(UsersOf(args)) : ValidUser(UsersOf(args)[k])

\* what C4 says of the QR code and the badges, and that nothing is raised
C4_QrAndBadges ==
    /\ AllValid => StoryBuilt
    /\ StoryBuilt =>
          LET blocks == Blocks
          IN
          \A k \in 1..Len(blocks) :
              /\ QrMissing(k) =>
                    RolesIn(blocks[k]) \cap {"qr", "output_handler_qr_code_alternative"} = {}
              /\ \A b \in {google_play_img, app_store_img} :
                    b \notin args.files =>
                        \A e \in Range(blocks[k]) :
                            IsKind(e, "Table") /\ ~IsBox(e) =>
                                \A c \in Range(e.data[1]) :
                                    IsKind(c, "ClickableImage") => c.image_path # b
              /\ {google_play_img, app_store_img} \cap args.files = {}
                    => "badges" \notin RolesIn(blocks[k])

\* C4 as claimed: a missing QR code, logo or badge file is left out of the
\* story and nothing is raised; for the logo, no logo element is added.
C4_MissingAssetsOmitted ==
    Generated =>
        /\ C4_QrAndBadges
        /\ LogoMissing => LogoAt = <<>>

\* C4 as the code has it: a missing QR code or badge file is left out of the
\* story and nothing is raised; for a missing logo, every block opens with
\* the default logo image and no image of logo_path is added.
C4_MissingAssetsOmittedOrDefaulted ==
    Generated =>
        /\ C4_QrAndBadges
        /\ LogoMissing =>
              /\ \A e \in Range(story) :
                    IsKind(e, "Image") => e.filename # args.logo_path
              /\ StoryBuilt =>
                    LET blocks == Blocks
                    IN  /\ Len(blocks) = Len(UsersOf(args))
                        /\ \A k \in 1..Len(blocks) : Head(blocks[k]) = im

C4_Witness ==
    /\ StoryBuilt
    /\ ~args.multi_user
    /\ args.qr_code_path = QrGone
    /\ args.logo_path = LogoGone
    /\ args.files \cap {google_play_img, app_store_img} = {app_store_img}
    /\ Len(LogoAt) = 1
    /\ Head(story) = im
    /\ "badges" \in RolesIn(Blocks[1])

\* C5: a user record without username or without password, at any position,
\* makes generate_pdf raise before doc.build, and no PDF is written.
C5_MissingFieldPropagates ==
    Generated =>
        LET users == UsersOf(args)
        IN  \A k \in 1..Len(users) :
                Defective(users[k]) =>
                    /\ raised \in {"KeyError", "AttributeError"}
                    /\ ~pdf_written
                    /\ (\A j \in 1..(k - 1) : ValidUser(users[j]))
                          /\ ~dict_get(users[k], "displayname", PyStr(<<>>)).isNone
                          => raised = "KeyError"

C5_Witness ==
    /\ Generated
    /\ args.multi_user
    /\ args.build_ok
    /\ Len(UsersOf(args)) = 2
    /\ ValidUser(UsersOf(args)[1])
    /\ "password" \notin DOMAIN UsersOf(args)[2]
    /\ "username" \in DOMAIN UsersOf(args)[2]
    /\ raised = "KeyError"
    /\ Len(Boxes) = 3
    /\ ~pdf_written

C5_WitnessSingle ==
    /\ Generated
    /\ ~args.multi_user
    /\ args.build_ok
    /\ "username" \notin DOMAIN args.user_data
    /\ "displayname" \in DOMAIN args.user_data
    /\ Len(Greetings) = 1
    /\ raised = "KeyError"
    /\ ~pdf_written

\* the order of the elements of a user block, given whether its QR file and
\* any badge file exist
BlockOrder(qr, badges) ==
    <<"logo", "output_handler_greeting", "output_handler_account_created",
      "output_handler_login_instructions", "output_handler_nc_url",
      "output_handler_username", "box", "output_handler_password", "box">>
    \o (IF qr THEN <<"output_handler_qr_code_alternative", "qr">> ELSE <<>>)
    \o <<"output_handler_download_app">>
    \o (IF badges THEN <<"badges">> ELSE <<>>)

RECURSIVE ExpectedContent(_)
ExpectedContent(k) ==
    IF k = 0 THEN <<>>
    ELSE ExpectedContent(k - 1)
         \o BlockOrder(~QrMissing(k),
                       {google_play_img, app_store_img} \cap args.files # {})

\* C7: every user block has its elements in the fixed order logo, greeting,
\* account message, login instructions, URL, username label and box,
\* password label and box, then caption and QR image when the QR file
\* exists, then the download text and the badge row when a badge exists.
C7_BlockOrder ==
    StoryBuilt => Content = ExpectedContent(Len(UsersOf(args)))

C7_Witness ==
    /\ StoryBuilt
    /\ args.multi_user
    /\ Len(UsersOf(args)) = 2
    /\ ~QrMissing(1)
    /\ QrMissing(2)
    /\ args.files \cap {google_play_img, app_store_img} # {}
    /\ "qr" \in RolesIn(Blocks[1])
    /\ "qr" \notin RolesIn(Blocks[2])

\* the name the k-th greeting paragraph addresses
NameIn(greeting) == SubSeq(greeting.text, 4, Len(greeting.text) - 2)
GreetingName(k) == NameIn(Greetings[k])

\* C8: the greeting names the username when the display name is absent, the
\* trimmed display name when it is present and not blank, and the username
\* when it is present but empty or blank; a record without display name is
\* built without error.
C8_GreetingName ==
    Generated =>
        LET users == UsersOf(args)
            greetings == Greetings
            boxes == Boxes
        IN  /\ Len(greetings) <= Len(users)
            /\ StoryBuilt => Len(greetings) = Len(users)
            /\ \A k \in 1..Len(greetings) :
                  IF "displayname" \notin DOMAIN users[k]
                  THEN NameIn(greetings[k]) = users[k]["username"]
                  ELSE LET d == users[k]["displayname"].s
                       IN  IF \E i \in 1..Len(d) : d[i] \notin Whitespace
                           THEN IsTrimOf(NameIn(greetings[k]), d)
                           ELSE NameIn(greetings[k]) = users[k]["username"]
            /\ \A k \in 1..Len(users) :
                  /\ \A j \in 1..k : "displayname" \notin DOMAIN users[j]
                  /\ \A j \in 1..k : ~Defective(users[j])
                  => Len(greetings) >= k /\ Len(boxes) >= 2 * k

C8_Witness ==
    /\ StoryBuilt
    /\ ~args.multi_user
    /\ "displayname" \in DOMAIN args.user_data
    /\ args.user_data["displayname"] = PyStr(<<" ", "d", " ">>)
    /\ GreetingName(1) = <<"d">>

C8_WitnessAbsent ==
    /\ StoryBuilt
    /\ ~args.multi_user
    /\ "displayname" \notin DOMAIN args.user_data
    /\ GreetingName(1) = <<" ", "v">>

C8_WitnessBlank ==
    /\ StoryBuilt
    /\ ~args.multi_user
    /\ "displayname" \in DOMAIN args.user_data
    /\ args.user_data["displayname"] = PyStr(<<" ">>)
    /\ GreetingName(1) = <<"u">>

====
